---- MODULE Spec2Model ----
(***************************************************************************)
(* State-machine model of the load balancer simulation:                    *)
(*   IPBlocker  (IPBlocker.cpp)   parseIp / isBlocked on address strings   *)
(*   WebServer  (WebServer.cpp)   one-slot worker with a countdown timer   *)
(*   LoadBalancer (LoadBalancer.cpp) run(): initializeServers,             *)
(*       fillInitialQueue, and per cycle maybeAddNewRequests, processTick, *)
(*       the peak update and balanceLoad.                                  *)
(* Address strings are sequences of one-character strings.  The random     *)
(* generator's draws are nondeterministic choices from small sets.         *)
(***************************************************************************)
EXTENDS Integers, Sequences, FiniteSets

VARIABLES
    config,         \* LoadBalancer::config_ (initialServers is clamped by initializeServers)
    ranges,         \* IPBlocker::ranges of *ipBlocker_: sequence of [start, end]
    requestQueue,   \* LoadBalancer::requestQueue_ (front = index 1)
    servers,        \* LoadBalancer::servers_ (pool order = index order)
    currentTime,    \* LoadBalancer::currentTime_
    nextRequestId,  \* LoadBalancer::nextRequestId_
    cooldownTimer,  \* LoadBalancer::cooldownTimer_
    stats,          \* LoadBalancer::stats_
    cycle,          \* run(): the loop variable `cycle`
    pending,        \* maybeAddNewRequests(): iterations of its for loop still to run
    arrivalDepth,   \* requestQueue_.size() read when maybeAddNewRequests() returns
    assigned,       \* the [ASSIGNED] lines written to logFile_, in order
    dispatchTick,   \* currentTime_ when each [ASSIGNED] line was written, in order
    scaleLog,       \* the SCALE UP / SCALE DOWN lines written to the log, in order
    pc,             \* position in run() (or in the caller of the public API)
    input,          \* argument of the last call: the source address handed to addRequest
    result          \* value returned by the last isBlocked() call of addRequest

vars == <<config, ranges, requestQueue, servers, currentTime, nextRequestId,
          cooldownTimer, stats, cycle, pending, arrivalDepth, assigned, dispatchTick,
          scaleLog, pc, input, result>>

-----------------------------------------------------------------------------
(* Bounds of the model *)

MaxCycles == 4
MaxGenerated == 4
MaxLen == 8

-----------------------------------------------------------------------------
(* Small helpers *)

Max(a, b) == IF a >= b THEN a ELSE b
Min(a, b) == IF a <= b THEN a ELSE b

Front(s) == SubSeq(s, 1, Len(s) - 1)
Last(s) == s[Len(s)]

RECURSIVE SeqsUpTo(_, _)
SeqsUpTo(S, n) ==
    IF n = 0 THEN {<<>>}
    ELSE LET shorter == SeqsUpTo(S, n - 1)
         IN shorter \cup {Append(s, c) : s \in {t \in shorter : Len(t) = n - 1}, c \in S}

-----------------------------------------------------------------------------
(* IPBlocker *)

Digits == <<"0", "1", "2", "3", "4", "5", "6", "7", "8", "9">>

IsDigit(c) == \E d \in 1..10 : Digits[d] = c
DigitValue(c) == (CHOOSE d \in 1..10 : Digits[d] = c) - 1

\* std::getline(ss, token, '.') called until it fails: the fields between dots; a
\* final read that extracts no character (empty string, or the string ends with
\* the delimiter) fails and yields no token.
RECURSIVE SplitOnDot(_, _, _)
SplitOnDot(s, i, cur) ==
    IF i > Len(s) THEN <<cur>>
    ELSE IF s[i] = "." THEN <<cur>> \o SplitOnDot(s, i + 1, <<>>)
    ELSE SplitOnDot(s, i + 1, Append(cur, s[i]))

GetlineTokens(ip) ==
    LET fields == SplitOnDot(ip, 1, <<>>)
    IN IF Last(fields) = <<>> THEN Front(fields) ELSE fields

\* atoi on a token of decimal digits (tokens of the model stay below 2^31)
RECURSIVE Atoi(_)
Atoi(token) ==
    IF token = <<>> THEN 0
    ELSE 10 * Atoi(Front(token)) + DigitValue(Last(token))

\* the packed uint32 (o1 << 24 | o2 << 16 | o3 << 8 | o4), kept as its two 16-bit
\* halves; U32Leq is <= on the packed values
Pack(o) == [hi |-> o[1] * 256 + o[2], lo |-> o[3] * 256 + o[4]]
U32Leq(a, b) == a.hi < b.hi \/ (a.hi = b.hi /\ a.lo <= b.lo)

\* the while loop of parseIp over the tokens, k = next token, i = octets stored
RECURSIVE ParseLoop(_, _, _, _)
ParseLoop(tokens, k, i, octets) ==
    IF k > Len(tokens)
    THEN IF i # 4 THEN [ok |-> FALSE, value |-> Pack(<<0, 0, 0, 0>>)]
         ELSE [ok |-> TRUE, value |-> Pack(octets)]
    ELSE LET token == tokens[k]
         IN IF i >= 4 \/ token = <<>> THEN [ok |-> FALSE, value |-> Pack(<<0, 0, 0, 0>>)]
            ELSE IF \E j \in 1..Len(token) : ~IsDigit(token[j])
                 THEN [ok |-> FALSE, value |-> Pack(<<0, 0, 0, 0>>)]
            ELSE IF Atoi(token) < 0 \/ Atoi(token) > 255
                 THEN [ok |-> FALSE, value |-> Pack(<<0, 0, 0, 0>>)]
            ELSE ParseLoop(tokens, k + 1, i + 1, [octets EXCEPT ![i + 1] = Atoi(token)])

ParseIp(ip) == ParseLoop(GetlineTokens(ip), 1, 0, <<0, 0, 0, 0>>)

IsBlocked(ip, rs) ==
    LET p == ParseIp(ip)
    IN IF ~p.ok THEN TRUE
       ELSE \E i \in 1..Len(rs) : U32Leq(rs[i].start, p.value) /\ U32Leq(p.value, rs[i].end)

-----------------------------------------------------------------------------
(* Request *)

\* std::to_string of a non-negative int
RECURSIVE IntToString(_)
IntToString(n) ==
    IF n < 10 THEN <<Digits[n + 1]>>
    ELSE Append(IntToString(n \div 10), Digits[(n % 10) + 1])

\* Request::randomIp with the four octets drawn
RandomIp(o) ==
    IntToString(o[1]) \o <<".">> \o IntToString(o[2]) \o <<".">> \o
    IntToString(o[3]) \o <<".">> \o IntToString(o[4])

\* Request::randomRequest with its draws
RandomRequest(nextId, src, dst, time, job) ==
    [id |-> nextId, ipIn |-> RandomIp(src), ipOut |-> RandomIp(dst),
     timeRequired |-> time, jobType |-> job]

\* the draws of the model: source octets, destination octets, job type
OctetDraws == {<<1, 1, 1, 1>>, <<3, 1, 1, 13>>}
RequestDraws ==
    {<<<<1, 1, 1, 1>>, <<3, 1, 1, 13>>, "P">>,
     <<<<1, 1, 1, 1>>, <<1, 1, 1, 1>>, "S">>,
     <<<<3, 1, 1, 13>>, <<1, 1, 1, 1>>, "S">>}

-----------------------------------------------------------------------------
(* WebServer *)

NewWebServer(id) ==
    [serverId |-> id, isBusy |-> FALSE, remainingTime |-> 0,
     currentRequest |-> <<>>, completedRequests |-> 0]

IsAvailable(s) == ~s.isBusy

\* WebServer::processRequest; request is <<>> (nullptr) or <<r>>
ProcessRequest_NoBusyTest(s, request) ==
    IF request = <<>>
    THEN [server |-> s, ret |-> FALSE]
    ELSE [server |-> [s EXCEPT !.currentRequest = request,
                               !.remainingTime = request[1].timeRequired,
                               !.isBusy = TRUE],
          ret |-> TRUE]

ProcessRequest(s, request) ==
    IF request = <<>> \/ s.isBusy
    THEN [server |-> s, ret |-> FALSE]
    ELSE [server |-> [s EXCEPT !.currentRequest = request,
                               !.remainingTime = request[1].timeRequired,
                               !.isBusy = TRUE],
          ret |-> TRUE]

\* WebServer::processTick
ServerTick_CountEveryTick(s) ==
    IF ~s.isBusy
    THEN [server |-> s, ret |-> FALSE]
    ELSE IF s.remainingTime - 1 <= 0
         THEN [server |-> [s EXCEPT !.remainingTime = s.remainingTime - 1,
                                    !.currentRequest = <<>>,
                                    !.isBusy = FALSE,
                                    !.completedRequests = s.completedRequests + 1],
               ret |-> TRUE]
         ELSE [server |-> [s EXCEPT !.remainingTime = s.remainingTime - 1,
                                    !.completedRequests = s.completedRequests + 1],
               ret |-> FALSE]

\* processTick completing on remainingTime < 0 instead of <= 0
ServerTick_LateCompletion(s) ==
    IF ~s.isBusy
    THEN [server |-> s, ret |-> FALSE]
    ELSE IF s.remainingTime - 1 < 0
         THEN [server |-> [s EXCEPT !.remainingTime = s.remainingTime - 1,
                                    !.currentRequest = <<>>,
                                    !.isBusy = FALSE,
                                    !.completedRequests = s.completedRequests + 1],
               ret |-> TRUE]
         ELSE [server |-> [s EXCEPT !.remainingTime = s.remainingTime - 1],
               ret |-> FALSE]

ServerTick(s) ==
    IF ~s.isBusy
    THEN [server |-> s, ret |-> FALSE]
    ELSE IF s.remainingTime - 1 <= 0
         THEN [server |-> [s EXCEPT !.remainingTime = s.remainingTime - 1,
                                    !.currentRequest = <<>>,
                                    !.isBusy = FALSE,
                                    !.completedRequests = s.completedRequests + 1],
               ret |-> TRUE]
         ELSE [server |-> [s EXCEPT !.remainingTime = s.remainingTime - 1],
               ret |-> FALSE]

-----------------------------------------------------------------------------
(* LoadBalancer: the operations as functions of the state they touch *)

NewStats ==
    [generatedRequests |-> 0, acceptedRequests |-> 0, blockedRequests |-> 0,
     completedRequests |-> 0, addedServers |-> 0, removedServers |-> 0,
     peakQueueSize |-> 0, finalQueueSize |-> 0, finalServerCount |-> 0]

\* addRequest counting a request as generated only once it is admitted
AddRequest_CountAfterCheck(request, q, st, rs) ==
    IF IsBlocked(request.ipIn, rs)
    THEN [queue |-> q,
          stats |-> [st EXCEPT !.blockedRequests = st.blockedRequests + 1],
          blocked |-> TRUE]
    ELSE [queue |-> Append(q, request),
          stats |-> [st EXCEPT !.generatedRequests = st.generatedRequests + 1,
                               !.acceptedRequests = st.acceptedRequests + 1],
          blocked |-> FALSE]

\* addRequest without the return of its blocked branch
AddRequest_NoReturn(request, q, st, rs) ==
    LET blocked == IsBlocked(request.ipIn, rs)
    IN [queue |-> Append(q, request),
        stats |-> [st EXCEPT !.generatedRequests = st.generatedRequests + 1,
                             !.blockedRequests =
                                 IF blocked THEN st.blockedRequests + 1
                                 ELSE st.blockedRequests,
                             !.acceptedRequests = st.acceptedRequests + 1],
        blocked |-> blocked]

\* addRequest handing the destination address to the filter
AddRequest_FilterOnDestination(request, q, st, rs) ==
    LET st1 == [st EXCEPT !.generatedRequests = st.generatedRequests + 1]
        blocked == IsBlocked(request.ipOut, rs)
    IN IF blocked
       THEN [queue |-> q,
             stats |-> [st1 EXCEPT !.blockedRequests = st1.blockedRequests + 1],
             blocked |-> blocked]
       ELSE [queue |-> Append(q, request),
             stats |-> [st1 EXCEPT !.acceptedRequests = st1.acceptedRequests + 1],
             blocked |-> blocked]

\* LoadBalancer::addRequest
AddRequest(request, q, st, rs) ==
    LET st1 == [st EXCEPT !.generatedRequests = st.generatedRequests + 1]
        blocked == IsBlocked(request.ipIn, rs)
    IN IF blocked
       THEN [queue |-> q,
             stats |-> [st1 EXCEPT !.blockedRequests = st1.blockedRequests + 1],
             blocked |-> blocked]
       ELSE [queue |-> Append(q, request),
             stats |-> [st1 EXCEPT !.acceptedRequests = st1.acceptedRequests + 1],
             blocked |-> blocked]

\* LoadBalancer::addServer
AddServer_Front(srvs) == <<NewWebServer(IntToString(Len(srvs) + 1))>> \o srvs

\* addServer creating a worker that is Busy
AddServer_Busy(srvs) ==
    Append(srvs, [NewWebServer(IntToString(Len(srvs) + 1)) EXCEPT !.isBusy = TRUE])

AddServer(srvs) == Append(srvs, NewWebServer(IntToString(Len(srvs) + 1)))

\* removeServer taking the last server of the pool, idle or not
RemoveServer_PopBack(srvs) ==
    IF srvs = <<>> THEN [servers |-> srvs, ret |-> FALSE]
    ELSE [servers |-> SubSeq(srvs, 1, Len(srvs) - 1), ret |-> TRUE]

\* removeServer searching from the front of the pool
RemoveServer_FirstIdle(srvs) ==
    LET idle == {k \in 1..Len(srvs) : IsAvailable(srvs[k])}
    IN IF idle = {} THEN [servers |-> srvs, ret |-> FALSE]
       ELSE LET t == CHOOSE k \in idle : \A j \in idle : k <= j
            IN [servers |-> SubSeq(srvs, 1, t - 1) \o SubSeq(srvs, t + 1, Len(srvs)),
                ret |-> TRUE]

\* LoadBalancer::removeServer: find_if over rbegin..rend, then erase
RemoveServer(srvs) ==
    LET idle == {k \in 1..Len(srvs) : IsAvailable(srvs[k])}
    IN IF idle = {} THEN [servers |-> srvs, ret |-> FALSE]
       ELSE LET t == CHOOSE k \in idle : \A j \in idle : j <= k
            IN [servers |-> SubSeq(srvs, 1, t - 1) \o SubSeq(srvs, t + 1, Len(srvs)),
                ret |-> TRUE]

\* the dispatch loop without its isAvailable() test
RECURSIVE DispatchLoop_NoIdleTest(_, _, _, _)
DispatchLoop_NoIdleTest(k, srvs, q, log) ==
    IF k > Len(srvs) \/ q = <<>>
    THEN [servers |-> srvs, queue |-> q, assigned |-> log]
    ELSE DispatchLoop_NoIdleTest(k + 1,
             [srvs EXCEPT ![k] = ProcessRequest(srvs[k], <<Head(q)>>).server],
             Tail(q),
             Append(log, [id |-> Head(q).id, server |-> srvs[k].serverId]))

\* the dispatch loop taking the newest request (back of the queue)
RECURSIVE DispatchLoop_Back(_, _, _, _)
DispatchLoop_Back(k, srvs, q, log) ==
    IF k > Len(srvs) \/ q = <<>>
    THEN [servers |-> srvs, queue |-> q, assigned |-> log]
    ELSE IF IsAvailable(srvs[k])
         THEN DispatchLoop_Back(k + 1,
                  [srvs EXCEPT ![k] = ProcessRequest(srvs[k], <<Last(q)>>).server],
                  Front(q),
                  Append(log, [id |-> Last(q).id, server |-> srvs[k].serverId]))
         ELSE DispatchLoop_Back(k + 1, srvs, q, log)

\* LoadBalancer::processTick, first loop: hand queued requests to idle servers
RECURSIVE DispatchLoop(_, _, _, _)
DispatchLoop(k, srvs, q, log) ==
    IF k > Len(srvs) \/ q = <<>>
    THEN [servers |-> srvs, queue |-> q, assigned |-> log]
    ELSE IF IsAvailable(srvs[k])
         THEN DispatchLoop(k + 1,
                  [srvs EXCEPT ![k] = ProcessRequest(srvs[k], <<Head(q)>>).server],
                  Tail(q),
                  Append(log, [id |-> Head(q).id, server |-> srvs[k].serverId]))
         ELSE DispatchLoop(k + 1, srvs, q, log)

\* LoadBalancer::processTick, second loop: tick every server
RECURSIVE TickLoop_Uncounted(_, _, _)
TickLoop_Uncounted(k, srvs, completed) ==
    IF k > Len(srvs)
    THEN [servers |-> srvs, completed |-> completed]
    ELSE TickLoop_Uncounted(k + 1, [srvs EXCEPT ![k] = ServerTick(srvs[k]).server],
                            completed)

\* the tick loop advancing every server twice
RECURSIVE TickLoop_Twice(_, _, _)
TickLoop_Twice(k, srvs, completed) ==
    IF k > Len(srvs)
    THEN [servers |-> srvs, completed |-> completed]
    ELSE LET r == ServerTick(srvs[k])
             r2 == ServerTick(r.server)
         IN TickLoop_Twice(k + 1, [srvs EXCEPT ![k] = r2.server],
                           IF r.ret \/ r2.ret THEN completed + 1 ELSE completed)

RECURSIVE TickLoop(_, _, _)
TickLoop(k, srvs, completed) ==
    IF k > Len(srvs)
    THEN [servers |-> srvs, completed |-> completed]
    ELSE LET r == ServerTick(srvs[k])
         IN TickLoop(k + 1, [srvs EXCEPT ![k] = r.server],
                     IF r.ret THEN completed + 1 ELSE completed)

\* a failed removal attempt starting a cooldown
Scale_FailedRemovalCools(srvs, q, cd, st, cfg, now) ==
    LET serverCount == Len(srvs)
        queueSize == Len(q)
        lowerThreshold == cfg.minQueuePerServer * serverCount
        upperThreshold == cfg.maxQueuePerServer * serverCount
    IN IF queueSize > upperThreshold
       THEN [servers |-> AddServer(srvs),
             cooldownTimer |-> cfg.scalingCooldownCycles,
             stats |-> [st EXCEPT !.addedServers = st.addedServers + 1],
             logged |-> <<[kind |-> "SCALE UP", cycle |-> now,
                           now |-> Len(AddServer(srvs))]>>]
       ELSE IF queueSize < lowerThreshold /\ serverCount > 1
       THEN LET r == RemoveServer(srvs)
            IN IF r.ret
               THEN [servers |-> r.servers,
                     cooldownTimer |-> cfg.scalingCooldownCycles,
                     stats |-> [st EXCEPT !.removedServers = st.removedServers + 1],
                     logged |-> <<[kind |-> "SCALE DOWN", cycle |-> now,
                                   now |-> Len(r.servers)]>>]
               ELSE [servers |-> srvs, cooldownTimer |-> cfg.scalingCooldownCycles,
                     stats |-> st, logged |-> <<>>]
       ELSE [servers |-> srvs, cooldownTimer |-> cd, stats |-> st, logged |-> <<>>]

\* a scale-up that is not counted in addedServers
Scale_UncountedAdd(srvs, q, cd, st, cfg, now) ==
    LET serverCount == Len(srvs)
        queueSize == Len(q)
        lowerThreshold == cfg.minQueuePerServer * serverCount
        upperThreshold == cfg.maxQueuePerServer * serverCount
    IN IF queueSize > upperThreshold
       THEN [servers |-> AddServer(srvs),
             cooldownTimer |-> cfg.scalingCooldownCycles,
             stats |-> st,
             logged |-> <<[kind |-> "SCALE UP", cycle |-> now,
                           now |-> Len(AddServer(srvs))]>>]
       ELSE IF queueSize < lowerThreshold /\ serverCount > 1
       THEN LET r == RemoveServer(srvs)
            IN IF r.ret
               THEN [servers |-> r.servers,
                     cooldownTimer |-> cfg.scalingCooldownCycles,
                     stats |-> [st EXCEPT !.removedServers = st.removedServers + 1],
                     logged |-> <<[kind |-> "SCALE DOWN", cycle |-> now,
                                   now |-> Len(r.servers)]>>]
               ELSE [servers |-> srvs, cooldownTimer |-> cd, stats |-> st,
                     logged |-> <<>>]
       ELSE [servers |-> srvs, cooldownTimer |-> cd, stats |-> st, logged |-> <<>>]

\* LoadBalancer::balanceLoad below its cooldown test: the threshold comparison
\* and the scaling event; logged = the lines it writes with writeLog
Scale(srvs, q, cd, st, cfg, now) ==
    LET serverCount == Len(srvs)
        queueSize == Len(q)
        lowerThreshold == cfg.minQueuePerServer * serverCount
        upperThreshold == cfg.maxQueuePerServer * serverCount
    IN IF queueSize > upperThreshold
       THEN [servers |-> AddServer(srvs),
             cooldownTimer |-> cfg.scalingCooldownCycles,
             stats |-> [st EXCEPT !.addedServers = st.addedServers + 1],
             logged |-> <<[kind |-> "SCALE UP", cycle |-> now,
                           now |-> Len(AddServer(srvs))]>>]
       ELSE IF queueSize < lowerThreshold /\ serverCount > 1
       THEN LET r == RemoveServer(srvs)
            IN IF r.ret
               THEN [servers |-> r.servers,
                     cooldownTimer |-> cfg.scalingCooldownCycles,
                     stats |-> [st EXCEPT !.removedServers = st.removedServers + 1],
                     logged |-> <<[kind |-> "SCALE DOWN", cycle |-> now,
                                   now |-> Len(r.servers)]>>]
               ELSE [servers |-> srvs, cooldownTimer |-> cd, stats |-> st,
                     logged |-> <<>>]
       ELSE [servers |-> srvs, cooldownTimer |-> cd, stats |-> st, logged |-> <<>>]

\* balanceLoad testing cooldownTimer_ > 1 instead of > 0
BalanceLoad_OffByOne(srvs, q, cd, st, cfg, now) ==
    IF cd > 1
    THEN [servers |-> srvs, cooldownTimer |-> cd - 1, stats |-> st, logged |-> <<>>]
    ELSE Scale(srvs, q, cd, st, cfg, now)

\* balanceLoad without the return of its cooldown branch
BalanceLoad_NoReturn(srvs, q, cd, st, cfg, now) ==
    IF cd > 0
    THEN Scale(srvs, q, cd - 1, st, cfg, now)
    ELSE Scale(srvs, q, cd, st, cfg, now)

\* balanceLoad decrementing cooldownTimer_ without its > 0 test
BalanceLoad_Unfloored(srvs, q, cd, st, cfg, now) ==
    IF cd > 0
    THEN [servers |-> srvs, cooldownTimer |-> cd - 1, stats |-> st, logged |-> <<>>]
    ELSE [Scale(srvs, q, cd, st, cfg, now) EXCEPT !.cooldownTimer = @ - 1]

\* LoadBalancer::balanceLoad
BalanceLoad(srvs, q, cd, st, cfg, now) ==
    IF cd > 0
    THEN [servers |-> srvs, cooldownTimer |-> cd - 1, stats |-> st, logged |-> <<>>]
    ELSE Scale(srvs, q, cd, st, cfg, now)

\* LoadBalancer::initializeServers: the clamp and the addServer loop
RECURSIVE AddServers(_, _)
AddServers(srvs, n) == IF n <= 0 THEN srvs ELSE AddServers(AddServer(srvs), n - 1)

ClampInitialServers_None(n) == n

ClampInitialServers(n) == IF n < 1 THEN 1 ELSE n

\* fillInitialQueue: targetQueueSize
TargetQueueSize(cfg) == cfg.initialServers * cfg.initialQueueMultiplier

-----------------------------------------------------------------------------
(* Configurations and draws of the model *)

InitialServersChoices == {0, 2}
MultiplierChoices == {0, 1}
CyclesChoices == {0, MaxCycles}
ThresholdChoices == {<<0, 0>>, <<1, 1>>}
CooldownChoices == {0, 1, 2}
ArrivalChoices == {<<0, 0>>, <<50, 2>>, <<100, 1>>}

\* ranges of the IPBlocker after main() has added the configured ranges:
\* none, 2.0.0.0-3.255.255.255, and 0.0.0.0/0
RangeChoices ==
    {<<>>,
     <<[start |-> Pack(<<2, 0, 0, 0>>), end |-> Pack(<<3, 255, 255, 255>>)]>>,
     <<[start |-> Pack(<<0, 0, 0, 0>>), end |-> Pack(<<255, 255, 255, 255>>)]>>}

Cfg(n, m, c, th, cd, rt, ar) ==
    [initialServers |-> n, initialQueueMultiplier |-> m, simulationCycles |-> c,
     minQueuePerServer |-> th[1], maxQueuePerServer |-> th[2],
     scalingCooldownCycles |-> cd,
     minRequestTime |-> rt[1], maxRequestTime |-> rt[2],
     arrivalProbabilityPercent |-> ar[1], maxNewRequestsPerCycle |-> ar[2]]

\* requests of two cycles each, every combination of the other settings
ProductConfigs ==
    {Cfg(n, m, c, th, cd, <<2, 2>>, ar) :
        n \in InitialServersChoices, m \in MultiplierChoices, c \in CyclesChoices,
        th \in ThresholdChoices, cd \in CooldownChoices, ar \in ArrivalChoices}

\* mixed and unit request times, a negative cycle count and multiplier,
\* thresholds with min > max
ExtraConfigs ==
    {Cfg(2, 1, MaxCycles, <<1, 1>>, 0, <<1, 2>>, <<50, 2>>),
     Cfg(1, 2, MaxCycles, <<1, 2>>, 1, <<1, 1>>, <<100, 1>>),
     Cfg(1, 0, MaxCycles, <<1, 2>>, 2, <<1, 1>>, <<0, 0>>),
     Cfg(2, 1, MaxCycles, <<2, 1>>, 1, <<2, 2>>, <<50, 2>>),
     Cfg(-1, -1, -1, <<1, 1>>, 1, <<1, 1>>, <<50, 2>>)}

Configs == ProductConfigs \cup ExtraConfigs

\* std::uniform_int_distribution<int>(1, 100): the draws of the model
ChanceDraws == {1, 100}

-----------------------------------------------------------------------------
(* LoadBalancer::run as a state machine *)

\* the initial values of the members the constructor's initializer list leaves to
\* their in-class initializers
InitialCounters == [currentTime |-> 0, nextRequestId |-> 1, cooldownTimer |-> 0]

\* the state after construction
Init ==
    /\ config \in Configs
    /\ ranges \in RangeChoices
    /\ requestQueue = <<>>
    /\ servers = <<>>
    /\ currentTime = InitialCounters.currentTime
    /\ nextRequestId = InitialCounters.nextRequestId
    /\ cooldownTimer = InitialCounters.cooldownTimer
    /\ stats = NewStats
    /\ cycle = 0
    /\ pending = 0
    /\ arrivalDepth = 0
    /\ assigned = <<>>
    /\ dispatchTick = <<>>
    /\ scaleLog = <<>>
    /\ pc = "start"
    /\ input = <<>>
    /\ result = FALSE

\* addRequest(generateRequest()): the draws, then the admission
GenerateAndAdd ==
    /\ stats.generatedRequests < MaxGenerated
    /\ \E d \in RequestDraws, time \in config.minRequestTime..config.maxRequestTime :
         LET request == RandomRequest(nextRequestId, d[1], d[2], time, d[3])
             r == AddRequest(request, requestQueue, stats, ranges)
         IN /\ requestQueue' = r.queue
            /\ stats' = r.stats
            /\ input' = request.ipIn
            /\ result' = r.blocked
    /\ nextRequestId' = nextRequestId + 1

InitializeServers ==
    /\ pc = "start"
    /\ config' = [config EXCEPT !.initialServers = ClampInitialServers(config.initialServers)]
    /\ servers' = AddServers(servers, config'.initialServers)
    /\ pc' = "fill"
    /\ UNCHANGED <<arrivalDepth, dispatchTick, ranges, requestQueue, currentTime,
                   nextRequestId, cooldownTimer, stats, cycle, pending, assigned,
                   scaleLog, input, result>>

\* fillInitialQueue: one iteration of the while loop
FillStep ==
    /\ pc = "fill"
    /\ Len(requestQueue) < TargetQueueSize(config)
    /\ GenerateAndAdd
    /\ UNCHANGED <<arrivalDepth, dispatchTick, config, ranges, servers, currentTime,
                   cooldownTimer, cycle, pending, assigned, scaleLog, pc>>

\* fillInitialQueue: loop exit and the peak assignment; run() enters its for loop
FillExit ==
    /\ pc = "fill"
    /\ ~(Len(requestQueue) < TargetQueueSize(config))
    /\ stats' = [stats EXCEPT !.peakQueueSize = Len(requestQueue)]
    /\ cycle' = 1
    /\ pc' = "loop"
    /\ UNCHANGED <<arrivalDepth, dispatchTick, config, ranges, requestQueue, servers,
                   currentTime, nextRequestId, cooldownTimer, pending, assigned,
                   scaleLog, input, result>>

\* run(): the condition of the for loop
LoopCondition_Lt(c, cfg) == c < cfg.simulationCycles

LoopCondition(c, cfg) == c <= cfg.simulationCycles

\* run(): for (cycle <= simulationCycles) taken: currentTime_ = cycle
LoopEnter ==
    /\ pc = "loop"
    /\ LoopCondition(cycle, config)
    /\ currentTime' = cycle
    /\ pc' = "arrive"
    /\ UNCHANGED <<arrivalDepth, dispatchTick, config, ranges, requestQueue, servers,
                   nextRequestId, cooldownTimer, stats, cycle, pending, assigned,
                   scaleLog, input, result>>

\* maybeAddNewRequests: the range of countDist
CountDraws(cfg) == 1..Max(1, cfg.maxNewRequestsPerCycle)

\* maybeAddNewRequests: the number of addRequest calls for a chance and a count
ArrivalCount_Lt(chance, count, cfg) ==
    IF chance < cfg.arrivalProbabilityPercent THEN count ELSE 0

ArrivalCount(chance, count, cfg) ==
    IF chance <= cfg.arrivalProbabilityPercent THEN count ELSE 0

\* maybeAddNewRequests: the chance and count draws
MaybeAddNewRequests ==
    /\ pc = "arrive"
    /\ \E chance \in ChanceDraws, count \in CountDraws(config) :
         pending' = ArrivalCount(chance, count, config)
    /\ pc' = "adding"
    /\ UNCHANGED <<arrivalDepth, dispatchTick, config, ranges, requestQueue, servers,
                   currentTime, nextRequestId, cooldownTimer, stats, cycle, assigned,
                   scaleLog, input, result>>

\* maybeAddNewRequests: one iteration of the for loop
AddNewRequest ==
    /\ pc = "adding"
    /\ pending > 0
    /\ GenerateAndAdd
    /\ pending' = pending - 1
    /\ UNCHANGED <<arrivalDepth, dispatchTick, config, ranges, servers, currentTime,
                   cooldownTimer, cycle, assigned, scaleLog, pc>>

\* processTick: the dispatch loop
Dispatch ==
    /\ pc = "adding"
    /\ pending = 0
    /\ LET r == DispatchLoop(1, servers, requestQueue, assigned)
       IN /\ servers' = r.servers
          /\ requestQueue' = r.queue
          /\ assigned' = r.assigned
          /\ dispatchTick' = dispatchTick \o
                 [i \in 1..(Len(r.assigned) - Len(assigned)) |-> currentTime]
    /\ arrivalDepth' = Len(requestQueue)
    /\ pc' = "tick"
    /\ UNCHANGED <<config, ranges, currentTime, nextRequestId, cooldownTimer, stats,
                   cycle, pending, scaleLog, input, result>>

\* processTick: the tick loop
TickServers ==
    /\ pc = "tick"
    /\ LET r == TickLoop(1, servers, stats.completedRequests)
       IN /\ servers' = r.servers
          /\ stats' = [stats EXCEPT !.completedRequests = r.completed]
    /\ pc' = "peak"
    /\ UNCHANGED <<arrivalDepth, dispatchTick, config, ranges, requestQueue,
                   currentTime, nextRequestId, cooldownTimer, cycle, pending, assigned,
                   scaleLog, input, result>>

\* run(): if (size > stats_.peakQueueSize) stats_.peakQueueSize = size
UpdatedPeak_Assign(peak, size) == size

\* the peak update never raising the peak
UpdatedPeak_Never(peak, size) == peak

UpdatedPeak(peak, size) == IF size > peak THEN size ELSE peak

\* run(): the peak update after processTick
UpdatePeak ==
    /\ pc = "peak"
    /\ stats' = [stats EXCEPT !.peakQueueSize = UpdatedPeak(@, Len(requestQueue))]
    /\ pc' = "balance"
    /\ UNCHANGED <<arrivalDepth, dispatchTick, config, ranges, requestQueue, servers,
                   currentTime, nextRequestId, cooldownTimer, cycle, pending, assigned,
                   scaleLog, input, result>>

\* run(): balanceLoad(), then ++cycle
Balance ==
    /\ pc = "balance"
    /\ LET r == BalanceLoad(servers, requestQueue, cooldownTimer, stats, config, currentTime)
       IN /\ servers' = r.servers
          /\ cooldownTimer' = r.cooldownTimer
          /\ stats' = r.stats
          /\ scaleLog' = scaleLog \o r.logged
    /\ cycle' = cycle + 1
    /\ pc' = "loop"
    /\ UNCHANGED <<arrivalDepth, dispatchTick, config, ranges, requestQueue,
                   currentTime, nextRequestId, pending, assigned, input, result>>

\* run(): stats_.finalQueueSize and stats_.finalServerCount after the loop
FinalSnapshot_Swapped(st, q, srvs) ==
    [st EXCEPT !.finalQueueSize = Len(srvs), !.finalServerCount = Len(q)]

FinalSnapshot(st, q, srvs) ==
    [st EXCEPT !.finalQueueSize = Len(q), !.finalServerCount = Len(srvs)]

\* run(): loop exit, the final snapshots, return stats_
Finish ==
    /\ pc = "loop"
    /\ ~LoopCondition(cycle, config)
    /\ stats' = FinalSnapshot(stats, requestQueue, servers)
    /\ pc' = "done"
    /\ UNCHANGED <<arrivalDepth, dispatchTick, config, ranges, requestQueue, servers,
                   currentTime, nextRequestId, cooldownTimer, cycle, pending, assigned,
                   scaleLog, input, result>>

Next ==
    \/ InitializeServers
    \/ FillStep
    \/ FillExit
    \/ LoopEnter
    \/ MaybeAddNewRequests
    \/ AddNewRequest
    \/ Dispatch
    \/ TickServers
    \/ UpdatePeak
    \/ Balance
    \/ Finish

Spec == Init /\ [][Next]_vars

-----------------------------------------------------------------------------
(* The WebServer interface driven directly: processRequest / processTick on   *)
(* one worker, with the requests a caller can construct                       *)

MaxCompleted == 3

\* Request::Request()
DefaultRequest ==
    [id |-> 0, ipIn |-> RandomIp(<<0, 0, 0, 0>>), ipOut |-> RandomIp(<<0, 0, 0, 0>>),
     timeRequired |-> 0, jobType |-> "P"]

\* the arguments of processRequest: nullptr, a default request, generated requests
WorkerArguments ==
    {<<>>, <<DefaultRequest>>} \cup
    {<<RandomRequest(1, d[1], d[2], time, d[3])>> : d \in RequestDraws, time \in 1..2}

\* a configuration whose run does nothing; the interface specifications do not run it
IdleConfig == Cfg(1, 0, 0, <<1, 1>>, 0, <<1, 1>>, <<0, 0>>)

\* the caller's position: a worker just constructed, or the call it made last
WorkerCalls == {"worker", "processRequest", "processTick"}

InitWorker ==
    /\ config = IdleConfig
    /\ ranges = <<>>
    /\ requestQueue = <<>>
    /\ servers = <<NewWebServer(IntToString(1))>>
    /\ currentTime = InitialCounters.currentTime
    /\ nextRequestId = InitialCounters.nextRequestId
    /\ cooldownTimer = InitialCounters.cooldownTimer
    /\ stats = NewStats
    /\ cycle = 0
    /\ pending = 0
    /\ arrivalDepth = 0
    /\ assigned = <<>>
    /\ dispatchTick = <<>>
    /\ scaleLog = <<>>
    /\ pc = "worker"
    /\ input = <<>>
    /\ result = FALSE

WorkerProcessRequest ==
    /\ pc \in WorkerCalls
    /\ pc' = "processRequest"
    /\ \E request \in WorkerArguments :
         LET r == ProcessRequest(servers[1], request)
         IN /\ servers' = <<r.server>>
            /\ result' = r.ret
            /\ input' = request
    /\ UNCHANGED <<arrivalDepth, dispatchTick, config, ranges, requestQueue,
                   currentTime, nextRequestId, cooldownTimer, stats, cycle, pending,
                   assigned, scaleLog>>

WorkerProcessTick ==
    /\ pc \in WorkerCalls
    /\ pc' = "processTick"
    /\ servers[1].completedRequests < MaxCompleted
    /\ LET r == ServerTick(servers[1])
       IN /\ servers' = <<r.server>>
          /\ result' = r.ret
    /\ UNCHANGED <<arrivalDepth, dispatchTick, config, ranges, requestQueue,
                   currentTime, nextRequestId, cooldownTimer, stats, cycle, pending,
                   assigned, scaleLog, input>>

NextWorker ==
    \/ WorkerProcessRequest
    \/ WorkerProcessTick

SpecWorker == InitWorker /\ [][NextWorker]_vars

-----------------------------------------------------------------------------
(* The admission interface driven directly: isBlocked and addRequest on an    *)
(* arbitrary source address string                                            *)

IpChars == {"1", "3", ".", "x"}
IpStrings == SeqsUpTo(IpChars, MaxLen)

IpRangeChoices ==
    {<<>>,
     <<[start |-> Pack(<<2, 0, 0, 0>>), end |-> Pack(<<3, 255, 255, 255>>)]>>}

InitIp ==
    /\ config = IdleConfig
    /\ ranges \in IpRangeChoices
    /\ requestQueue = <<>>
    /\ servers = <<>>
    /\ currentTime = InitialCounters.currentTime
    /\ nextRequestId = InitialCounters.nextRequestId
    /\ cooldownTimer = InitialCounters.cooldownTimer
    /\ stats = NewStats
    /\ cycle = 0
    /\ pending = 0
    /\ arrivalDepth = 0
    /\ assigned = <<>>
    /\ dispatchTick = <<>>
    /\ scaleLog = <<>>
    /\ pc = "api"
    /\ input \in IpStrings
    /\ result = FALSE

\* ipBlocker_->isBlocked(input)
ApiIsBlocked ==
    /\ pc = "api"
    /\ result' = IsBlocked(input, ranges)
    /\ pc' = "apiChecked"
    /\ UNCHANGED <<arrivalDepth, dispatchTick, config, ranges, requestQueue, servers,
                   currentTime, nextRequestId, cooldownTimer, stats, cycle, pending,
                   assigned, scaleLog, input>>

\* addRequest(request) with request.ipIn = input
ApiAddRequest ==
    /\ pc = "apiChecked"
    /\ LET request == [id |-> nextRequestId, ipIn |-> input,
                       ipOut |-> RandomIp(<<1, 1, 1, 1>>),
                       timeRequired |-> 1, jobType |-> "P"]
           r == AddRequest(request, requestQueue, stats, ranges)
       IN /\ requestQueue' = r.queue
          /\ stats' = r.stats
    /\ nextRequestId' = nextRequestId + 1
    /\ pc' = "apiDone"
    /\ UNCHANGED <<arrivalDepth, dispatchTick, config, ranges, servers, currentTime,
                   cooldownTimer, cycle, pending, assigned, scaleLog, input, result>>

NextIp ==
    \/ ApiIsBlocked
    \/ ApiAddRequest

SpecIp == InitIp /\ [][NextIp]_vars

-----------------------------------------------------------------------------
(* Properties *)

Idle(srvs) == {k \in 1..Len(srvs) : IsAvailable(srvs[k])}
Busy(srvs) == {k \in 1..Len(srvs) : srvs[k].isBusy}
Without(srvs, k) == SubSeq(srvs, 1, k - 1) \o SubSeq(srvs, k + 1, Len(srvs))

\* every draw of the generator is a source address the filter blocks
BlocksEveryDraw == \A d \in RequestDraws : IsBlocked(RandomIp(d[1]), ranges)

\* C1: at every point of a run, during pre-fill and after every addRequest of the
\* tick loop, generatedRequests = acceptedRequests + blockedRequests.
C1_GeneratedIsAcceptedPlusBlocked ==
    stats.generatedRequests = stats.acceptedRequests + stats.blockedRequests

\* a tick-loop addRequest has run and both outcomes have been counted
C1_Witness ==
    /\ pc = "adding"
    /\ currentTime >= 1
    /\ stats.generatedRequests >= 3
    /\ stats.acceptedRequests >= 1
    /\ stats.blockedRequests >= 1

\* C2: after initialization the pool never has fewer than one worker, and a step
\* that shrinks the pool removes exactly one worker that is Idle at that moment,
\* so a Busy worker is never removed.
C2_PoolAndScaleDown ==
    [][/\ pc' # "start" => Len(servers') >= 1
       /\ Len(servers') < Len(servers) =>
            \E k \in Idle(servers) : servers' = Without(servers, k)]_vars

\* a scale-down has just removed a worker while another one is Busy
C2_Witness ==
    /\ pc = "loop"
    /\ scaleLog # <<>>
    /\ Last(scaleLog).kind = "SCALE DOWN"
    /\ Last(scaleLog).cycle = currentTime
    /\ Busy(servers) # {}

\* C3: the dispatch phase leaves the queue with max(0, q - i) requests, q the queue
\* size and i the number of Idle workers at its start; exactly min(q, i) requests
\* are assigned, and the queue does not grow.
C3_DispatchSize ==
    [][(pc = "adding" /\ pc' = "tick") =>
         LET q == Len(requestQueue)
             i == Cardinality(Idle(servers))
         IN /\ Len(requestQueue') = Max(0, q - i)
            /\ Len(requestQueue') <= q
            /\ Len(assigned') = Len(assigned) + Min(q, i)
            /\ Cardinality(Busy(servers')) = Cardinality(Busy(servers)) + Min(q, i)]_vars

\* a dispatch phase has just run with more queued requests than Idle workers, a
\* Busy worker in the pool and at least one assignment
C3_Witness ==
    /\ pc = "tick"
    /\ requestQueue # <<>>
    /\ \E k \in Busy(servers) :
         servers[k].remainingTime < servers[k].currentRequest[1].timeRequired
    /\ \E k \in Busy(servers) :
         /\ servers[k].remainingTime = servers[k].currentRequest[1].timeRequired
         /\ assigned # <<>>
         /\ Last(assigned).id = servers[k].currentRequest[1].id

StrictlyIncreasing(ids) == \A a, b \in 1..Len(ids) : a < b => ids[a] < ids[b]
Ids(seq) == [k \in 1..Len(seq) |-> seq[k].id]

\* the k-th smallest element of a set of indices
Kth(S, k) == CHOOSE j \in S : Cardinality({x \in S : x <= j}) = k

\* C4: requests are dispatched in admission order over the whole run: the assigned
\* requests, followed by the queued ones, are in increasing order of admission
\* (ids are handed out in generation order), and in one dispatch phase the k-th
\* Idle worker in pool order receives the k-th request from the queue front.
C4_Fifo ==
    [][/\ StrictlyIncreasing(Ids(assigned') \o Ids(requestQueue'))
       /\ (pc = "adding" /\ pc' = "tick") =>
            LET n == Min(Len(requestQueue), Cardinality(Idle(servers)))
            IN \A k \in 1..n :
                 /\ servers'[Kth(Idle(servers), k)].currentRequest = <<requestQueue[k]>>
                 /\ assigned'[Len(assigned) + k].id = requestQueue[k].id]_vars

\* two requests have been dispatched in different phases and a third still waits
C4_Witness ==
    /\ Len(assigned) >= 3
    /\ requestQueue # <<>>
    /\ \E k \in Busy(servers) : servers[k].currentRequest[1].id > 1

C6_WorkerInvariant ==
    \A k \in 1..Len(servers) :
        /\ (servers[k].remainingTime > 0) <=> servers[k].isBusy
        /\ servers[k].isBusy <=> (servers[k].currentRequest # <<>>)

\* exactly four dot-separated fields, each a decimal number in 0..255
WellFormed(ip) ==
    LET fields == SplitOnDot(ip, 1, <<>>)
    IN /\ Len(fields) = 4
       /\ \A f \in 1..4 :
            /\ fields[f] # <<>>
            /\ \A j \in 1..Len(fields[f]) : IsDigit(fields[f][j])
            /\ Atoi(fields[f]) <= 255

\* C7: isBlocked returns true for every address string that is not a well-formed
\* dotted-decimal IPv4 address, whatever ranges are configured, and a request with
\* such a source address is counted as blocked and never enqueued.
C7_MalformedIsBlocked ==
    (pc \in {"apiChecked", "apiDone"} /\ ~WellFormed(input)) =>
        /\ result = TRUE
        /\ pc = "apiDone" =>
             /\ requestQueue = <<>>
             /\ stats.blockedRequests = 1
             /\ stats.acceptedRequests = 0

\* C9: the pre-fill loop terminates for every admission filter, also one that
\* blocks every generated request: an iteration of the loop under such a filter
\* must bring the queue closer to the target, otherwise the loop condition
\* (queue size < target) is never changed and the loop never exits.
C9_PrefillTerminates ==
    [][(pc = "fill" /\ pc' = "fill" /\ BlocksEveryDraw) =>
         Len(requestQueue') > Len(requestQueue)]_vars

\* C10: if the filter blocks every generated source address, then in every state
\* of the run nothing is accepted, everything generated is blocked, the queue is
\* empty, the peak is 0 and no worker is Busy.
C10_AllBlocked ==
    BlocksEveryDraw =>
        /\ stats.acceptedRequests = 0
        /\ stats.blockedRequests = stats.generatedRequests
        /\ requestQueue = <<>>
        /\ stats.peakQueueSize = 0
        /\ Busy(servers) = {}

\* a run under an all-blocking filter has generated requests in its tick loop and
\* has returned
C10_Witness ==
    /\ BlocksEveryDraw
    /\ pc = "done"
    /\ stats.generatedRequests >= 2
    /\ currentTime = MaxCycles

\* C11: whenever balanceLoad runs with the cooldown at 0 and the queue larger than
\* maxQueuePerServer times the pool size, exactly one Idle worker is appended to
\* the end of the pool, addedServers grows by exactly 1 (removedServers does not
\* change) and the cooldown is set to scalingCooldownCycles.
C11_ScaleUp ==
    [][(/\ pc = "balance"
        /\ cooldownTimer = 0
        /\ Len(requestQueue) > config.maxQueuePerServer * Len(servers)) =>
         /\ Len(servers') = Len(servers) + 1
         /\ SubSeq(servers', 1, Len(servers)) = servers
         /\ IsAvailable(Last(servers'))
         /\ Last(servers').currentRequest = <<>>
         /\ Last(servers').completedRequests = 0
         /\ stats'.addedServers = stats.addedServers + 1
         /\ stats'.removedServers = stats.removedServers
         /\ cooldownTimer' = config.scalingCooldownCycles]_vars

\* a scale-up has just appended a worker behind a Busy one and started a cooldown
C11_Witness ==
    /\ pc = "loop"
    /\ scaleLog # <<>>
    /\ Last(scaleLog).kind = "SCALE UP"
    /\ Last(scaleLog).cycle = currentTime
    /\ Len(servers) >= 2
    /\ servers[1].isBusy
    /\ IsAvailable(Last(servers))
    /\ cooldownTimer >= 1

\* C12: a worker's completedRequests never decreases: a processTick() call that
\* returns true adds exactly 1, and every other call (processTick() returning
\* false, processRequest) leaves it unchanged.
C12_CompletedCount ==
    [][LET before == servers[1].completedRequests
           after == servers'[1].completedRequests
       IN IF pc' = "processTick" /\ result'
          THEN after = before + 1
          ELSE after = before]_vars

\* a worker that has completed two requests has just been ticked without
\* completing the one it holds
C12_Witness ==
    /\ pc = "processTick"
    /\ ~result
    /\ servers[1].isBusy
    /\ servers[1].completedRequests >= 2

\* C13: processRequest on a Busy worker, or with no request, returns false and
\* leaves every field of the worker unchanged; on an Idle worker with a request it
\* returns true, the worker is Busy holding that request, remainingTime is the
\* request's cost, and its identifier and completedRequests are unchanged.
C13_ProcessRequest ==
    [][pc' = "processRequest" =>
         IF input' = <<>> \/ servers[1].isBusy
         THEN /\ ~result'
              /\ servers'[1] = servers[1]
         ELSE /\ result'
              /\ servers'[1].isBusy
              /\ servers'[1].currentRequest = input'
              /\ servers'[1].remainingTime = input'[1].timeRequired
              /\ servers'[1].serverId = servers[1].serverId
              /\ servers'[1].completedRequests = servers[1].completedRequests]_vars

\* a Busy worker has just refused a request other than the one it holds
C13_Witness ==
    /\ pc = "processRequest"
    /\ ~result
    /\ input # <<>>
    /\ servers[1].isBusy
    /\ servers[1].currentRequest # input

\* C14: run() executes its loop body exactly max(0, simulationCycles) times; the
\* tick counter currentTime_ is written only on entering an iteration, where it
\* takes the value of the loop variable, one more than in the iteration before,
\* starting at 1 and never exceeding simulationCycles.
C14_TickCounter ==
    [][/\ IF pc = "loop" /\ pc' = "arrive"
          THEN /\ currentTime' = cycle
               /\ cycle = 1 \/ currentTime' = currentTime + 1
               /\ currentTime' <= config.simulationCycles
          ELSE currentTime' = currentTime
       /\ cycle' # cycle =>
            \/ pc = "fill" /\ cycle' = 1
            \/ pc = "balance" /\ cycle' = cycle + 1 /\ cycle = currentTime
       /\ pc' = "done" => cycle' = Max(0, config.simulationCycles) + 1]_vars

\* a run of MaxCycles ticks has returned
C14_Witness ==
    /\ pc = "done"
    /\ config.simulationCycles = MaxCycles
    /\ currentTime = MaxCycles

\* C15: when run() returns, finalQueueSize is the number of requests still in the
\* queue and finalServerCount the number of workers in the pool; both are 0 in
\* every state before that.
C15_FinalSnapshots ==
    IF pc = "done"
    THEN /\ stats.finalQueueSize = Len(requestQueue)
         /\ stats.finalServerCount = Len(servers)
    ELSE /\ stats.finalQueueSize = 0
         /\ stats.finalServerCount = 0

\* a run has returned with requests still queued, after scaling, with a pool size
\* different from the queue size
C15_Witness ==
    /\ pc = "done"
    /\ scaleLog # <<>>
    /\ stats.finalQueueSize >= 1
    /\ stats.finalServerCount > stats.finalQueueSize

\* C16: generatedRequests, acceptedRequests, blockedRequests, completedRequests,
\* addedServers, removedServers and peakQueueSize never decrease from one state to
\* the next.
C16_CountersMonotone ==
    [][/\ stats'.generatedRequests >= stats.generatedRequests
       /\ stats'.acceptedRequests >= stats.acceptedRequests
       /\ stats'.blockedRequests >= stats.blockedRequests
       /\ stats'.completedRequests >= stats.completedRequests
       /\ stats'.addedServers >= stats.addedServers
       /\ stats'.removedServers >= stats.removedServers
       /\ stats'.peakQueueSize >= stats.peakQueueSize]_vars

\* the peak update of a later tick has run on a queue shorter than the peak
C16_Witness ==
    /\ pc = "balance"
    /\ currentTime >= 2
    /\ stats.peakQueueSize > Len(requestQueue)
    /\ stats.completedRequests >= 1

\* C17: the peak update of a tick sets peakQueueSize to the larger of the previous
\* peak and the queue size measured after the arrival phase and before the
\* dispatch phase of that tick.
C17_PeakSampledAfterArrivals ==
    [][(pc = "peak" /\ pc' = "balance") =>
         stats'.peakQueueSize = Max(stats.peakQueueSize, arrivalDepth)]_vars

C19_Conservation ==
    /\ stats.acceptedRequests =
         Len(requestQueue) + Cardinality(Busy(servers)) + stats.completedRequests
    /\ stats.completedRequests <= stats.acceptedRequests

\* requests are queued, in service and completed at once, after a scale-down and
\* a scale-up
C19_Witness ==
    /\ requestQueue # <<>>
    /\ Busy(servers) # {}
    /\ stats.completedRequests >= 1
    /\ stats.removedServers >= 1
    /\ stats.addedServers >= 1

\* C20: the identifiers of the workers in the pool are pairwise distinct.
C20_DistinctIds ==
    \A j, k \in 1..Len(servers) : j # k => servers[j].serverId # servers[k].serverId

\* the highest index of an Idle worker of a pool that has one
LastIdle(srvs) == CHOOSE k \in Idle(srvs) : \A j \in Idle(srvs) : j <= k

C22_FailedRemovalIsFree ==
    [][(/\ pc = "balance"
        /\ cooldownTimer = 0
        /\ Len(requestQueue) < config.minQueuePerServer * Len(servers)
        /\ Len(servers) > 1
        /\ Idle(servers) = {}) =>
         /\ servers' = servers
         /\ stats' = stats
         /\ scaleLog' = scaleLog
         /\ cooldownTimer' = 0]_vars

\* balanceLoad has just returned from a removal attempt that found every worker
\* Busy, under a configuration whose scaling events start a cooldown
C22_Witness ==
    /\ pc = "loop"
    /\ cycle = currentTime + 1
    /\ scaleLog = <<>>
    /\ cooldownTimer = 0
    /\ config.scalingCooldownCycles >= 1
    /\ Len(requestQueue) < config.minQueuePerServer * Len(servers)
    /\ Len(servers) > 1
    /\ Idle(servers) = {}

\* C23: a step that shrinks the pool removes exactly the Idle worker with the
\* highest index; the other workers keep their state and their relative order,
\* removedServers grows by 1 (addedServers does not change) and the cooldown is set
\* to scalingCooldownCycles.
C23_ScaleDown ==
    [][Len(servers') < Len(servers) =>
         /\ Idle(servers) # {}
         /\ servers' = Without(servers, LastIdle(servers))
         /\ stats'.removedServers = stats.removedServers + 1
         /\ stats'.addedServers = stats.addedServers
         /\ cooldownTimer' = config.scalingCooldownCycles]_vars

\* a scale-down has just run on an initial pool of two Idle workers that had both
\* completed a request: the second is gone, the first is left as it was
C23_Witness ==
    /\ pc = "loop"
    /\ scaleLog # <<>>
    /\ Last(scaleLog).kind = "SCALE DOWN"
    /\ Last(scaleLog).cycle = currentTime
    /\ stats.addedServers = 0
    /\ stats.removedServers = 1
    /\ stats.completedRequests = 2
    /\ Len(servers) = 1
    /\ servers[1].serverId = IntToString(1)
    /\ servers[1].completedRequests = 1
    /\ IsAvailable(servers[1])

\* C24: the tick phase advances every worker of the pool, Busy or Idle, by exactly
\* one processTick(), also a worker assigned its request earlier in the same tick,
\* and completedRequests grows by the number of calls that returned true.
C24_TickPhase ==
    [][(pc = "tick" /\ pc' = "peak") =>
         /\ Len(servers') = Len(servers)
         /\ \A k \in 1..Len(servers) : servers'[k] = ServerTick(servers[k]).server
         /\ stats'.completedRequests = stats.completedRequests +
              Cardinality({k \in 1..Len(servers) : ServerTick(servers[k]).ret})]_vars

\* the tick phase of tick 1 has completed a request assigned in tick 1 and left
\* another worker Busy
C24_Witness ==
    /\ pc = "peak"
    /\ currentTime = 1
    /\ stats.completedRequests >= 1
    /\ Busy(servers) # {}
    /\ Idle(servers) # {}

\* the tick in which the [ASSIGNED] line of request id was written
DispatchTickOf(id) ==
    dispatchTick[CHOOSE i \in 1..Len(assigned) : assigned[i].id = id]

\* the tick in which the request a Busy worker holds is due to complete
DueTick(s) ==
    DispatchTickOf(s.currentRequest[1].id) + s.currentRequest[1].timeRequired - 1

\* C25: a request of cost c >= 1 dispatched in tick t completes in the tick phase of
\* tick t + c - 1 and in no earlier one: until then its worker stays Busy and its
\* processTick() returns false, in that tick the worker becomes Idle and counts one
\* completion; a Busy worker is not dispatched to, so it can receive its next
\* request in tick t + c at the earliest; an Idle worker's processTick() changes
\* nothing.
C25_CompletionTick ==
    [][/\ (pc = "tick" /\ pc' = "peak") =>
            \A k \in 1..Len(servers) :
               IF servers[k].isBusy
               THEN /\ currentTime <= DueTick(servers[k])
                    /\ servers'[k].isBusy <=> currentTime < DueTick(servers[k])
                    /\ ServerTick(servers[k]).ret <=> currentTime = DueTick(servers[k])
                    /\ servers'[k].completedRequests = servers[k].completedRequests +
                         (IF currentTime = DueTick(servers[k]) THEN 1 ELSE 0)
               ELSE /\ servers'[k] = servers[k]
                    /\ ~ServerTick(servers[k]).ret
       /\ (pc = "adding" /\ pc' = "tick") =>
            \A k \in 1..Len(servers) :
               /\ servers[k].isBusy => servers'[k] = servers[k]
               /\ servers'[k] # servers[k] =>
                    /\ servers'[k].isBusy
                    /\ servers'[k].currentRequest[1].timeRequired >= 1
                    /\ \E i \in (Len(assigned) + 1)..Len(assigned') :
                         /\ assigned'[i].id = servers'[k].currentRequest[1].id
                         /\ dispatchTick'[i] = currentTime]_vars

\* under requests of cost 2, a worker that was assigned in tick 1 and completed in
\* tick 2 has been assigned its next request in tick 3
C25_Witness ==
    /\ pc = "tick"
    /\ currentTime = 3
    /\ config.minRequestTime = 2
    /\ \E k \in 1..Len(servers) :
         /\ servers[k].isBusy
         /\ servers[k].completedRequests = 1
         /\ DispatchTickOf(servers[k].currentRequest[1].id) = 3

\* C26: within a tick the phases run in the order arrival, dispatch, worker tick,
\* scaling, each to completion: the arrival phase only adds to the queue, requests
\* leave the queue and workers become Busy only in the dispatch phase (which
\* follows the arrivals of the same tick), and the pool changes only in the
\* scaling phase, where an added worker is Idle; it stays Idle until the dispatch
\* phase of the next tick.
C26_PhaseOrder ==
    [][/\ pc = "arrive" => pc' = "adding"
       /\ pc = "adding" => (pc' = "adding" /\ pending > 0) \/ (pc' = "tick" /\ pending = 0)
       /\ pc = "tick" => pc' = "peak"
       /\ pc = "peak" => pc' = "balance"
       /\ pc = "balance" => pc' = "loop"
       /\ pc' = "adding" =>
            /\ servers' = servers
            /\ requestQueue' = requestQueue \/ Front(requestQueue') = requestQueue
       /\ (Len(requestQueue') < Len(requestQueue)
             \/ Cardinality(Busy(servers')) > Cardinality(Busy(servers))) =>
            (pc = "adding" /\ pc' = "tick")
       /\ Len(servers') # Len(servers) => pc \in {"start", "balance"}
       /\ (pc = "balance" /\ Len(servers') > Len(servers)) =>
            /\ IsAvailable(Last(servers'))
            /\ requestQueue' = requestQueue]_vars

\* a worker added by the scale-up of the previous tick holds its first request,
\* assigned in the dispatch phase of this tick
C26_Witness ==
    /\ pc = "tick"
    /\ scaleLog # <<>>
    /\ Last(scaleLog).kind = "SCALE UP"
    /\ Last(scaleLog).cycle = currentTime - 1
    /\ Last(servers).isBusy
    /\ Last(servers).completedRequests = 0
    /\ DispatchTickOf(Last(servers).currentRequest[1].id) = currentTime

\* C27: a step that generates a request makes one admission decision, on the
\* request's source address: if the filter does not block it, the request is
\* appended at the queue tail and acceptedRequests grows by 1; if it does, the
\* queue is unchanged and blockedRequests grows by 1. The destination address
\* plays no part.
C27_AdmissionOnSource ==
    [][stats'.generatedRequests # stats.generatedRequests =>
         /\ stats'.generatedRequests = stats.generatedRequests + 1
         /\ result' = IsBlocked(input', ranges)
         /\ IF IsBlocked(input', ranges)
            THEN /\ requestQueue' = requestQueue
                 /\ stats'.blockedRequests = stats.blockedRequests + 1
                 /\ stats'.acceptedRequests = stats.acceptedRequests
            ELSE /\ Len(requestQueue') = Len(requestQueue) + 1
                 /\ Front(requestQueue') = requestQueue
                 /\ Last(requestQueue').ipIn = input'
                 /\ Last(requestQueue').id = nextRequestId
                 /\ stats'.acceptedRequests = stats.acceptedRequests + 1
                 /\ stats'.blockedRequests = stats.blockedRequests]_vars

\* a request whose destination lies in a blocked range has just been queued behind
\* another one, after a request with a blocked source was rejected
C27_Witness ==
    /\ pc = "adding"
    /\ ~result
    /\ Len(requestQueue) >= 2
    /\ Last(requestQueue).id = nextRequestId - 1
    /\ IsBlocked(Last(requestQueue).ipOut, ranges)
    /\ ~IsBlocked(Last(requestQueue).ipIn, ranges)
    /\ stats.blockedRequests >= 1

\* C28: the arrival phase of a tick generates 0 requests or a count between 1 and
\* max(1, maxNewRequestsPerCycle), one addRequest call at a time; with
\* arrivalProbabilityPercent = 0 it generates none, with 100 at least one.
C28_ArrivalCount ==
    [][/\ pc = "arrive" =>
            /\ pending' \in 0..Max(1, config.maxNewRequestsPerCycle)
            /\ config.arrivalProbabilityPercent = 0 => pending' = 0
            /\ config.arrivalProbabilityPercent = 100 => pending' >= 1
       /\ pc = "adding" =>
            IF pc' = "adding"
            THEN /\ pending' = pending - 1
                 /\ stats'.generatedRequests = stats.generatedRequests + 1
            ELSE /\ pending = 0
                 /\ stats'.generatedRequests = stats.generatedRequests]_vars

\* the arrival phase of a later tick has drawn its largest count
C28_Witness ==
    /\ pc = "adding"
    /\ currentTime >= 2
    /\ pending = 2
    /\ config.maxNewRequestsPerCycle = 2

C30_PoolAccounting ==
    pc # "start" =>
       /\ Len(servers) =
            Max(1, config.initialServers) + stats.addedServers - stats.removedServers
       /\ pc = "done" =>
            stats.finalServerCount =
              Max(1, config.initialServers) + stats.addedServers - stats.removedServers

\* a run with a scale-up and a scale-down has returned
C30_Witness ==
    /\ pc = "done"
    /\ stats.addedServers >= 1
    /\ stats.removedServers >= 1

\* C31: once the peak update of a tick has run, and from the end of the pre-fill
\* to the start of the first tick, peakQueueSize is at least the queue size; in the
\* statistics run() returns, peakQueueSize is at least finalQueueSize, also for a
\* run of no ticks.
C31_PeakBoundsQueue ==
    /\ pc \in {"balance", "loop", "done"} => stats.peakQueueSize >= Len(requestQueue)
    /\ pc = "done" => stats.peakQueueSize >= stats.finalQueueSize

\* a run that started with an empty queue has returned with requests still queued,
\* the peak having been raised in its ticks
C31_Witness ==
    /\ pc = "done"
    /\ config.initialQueueMultiplier = 0
    /\ currentTime = MaxCycles
    /\ stats.finalQueueSize >= 1
    /\ stats.peakQueueSize >= stats.finalQueueSize

====
